---------------------------- MODULE Spec2Model ----------------------------
(***************************************************************************)
(* Model of release/main.py: a MicroPython program that drives two TM1637  *)
(* four-digit displays (CPU and GPU temperature) from "cpu,gpu" lines read *)
(* on stdin.                                                               *)
(*                                                                         *)
(* Six specifications share the variables:                                 *)
(*   Spec      the program: startup sequence and the polling loop, one     *)
(*             action per loop iteration;                                  *)
(*   SpecTemp  display_temp applied to one temperature drawn from a range; *)
(*   SpecErr   show_error applied to one error code;                       *)
(*   SpecBus   TM1637.write executed one pin write at a time;              *)
(*   SpecByte  TM1637._write_byte executed one pin write at a time;        *)
(*   SpecWire  the program with every display.write it makes executed one  *)
(*             pin write at a time before the program goes on.             *)
(*                                                                         *)
(* Floats are modelled in tenths of a degree (an integer t stands for      *)
(* t/10), plus nan, +inf and -inf.  time.time() is a clock of whole        *)
(* seconds.                                                                *)
(***************************************************************************)
EXTENDS Integers, Sequences, FiniteSets

VARIABLES
    \* ---- the program (Spec)
    pc,              \* "status1" | "status2" | "status3" | "loop" | "halted"
    now,             \* the value time.time() returns
    last_data_time,  \* global last_data_time (NoTime until line 147 ran)
    error_shown,     \* global error_shown
    line,            \* what the last iteration polled: NoData or the raw line
    writes,          \* display.write calls of the last step: <<display, segments>>
    log,             \* print calls of the last step
    \* ---- display_temp alone (SpecTemp)
    tpc,             \* "idle" | "call" | "return"
    temp,            \* the argument
    tres,            \* what the call did: [exc, writes]
    \* ---- show_error alone (SpecErr)
    epc,             \* "idle" | "call" | "return"
    ecode,           \* the argument
    eres,            \* the display.write calls it made
    \* ---- the loop iterations done (SpecWire)
    iters,
    \* ---- TM1637.write at pin level (SpecBus)
    bpc,             \* "idle" | "next" | "op"; "byte" | "byteret" in SpecByte
    clk,             \* level of each display's clock pin
    dio,             \* level of each display's data pin
    brightness,      \* TM1637.brightness of each display
    queue,           \* write calls still to run: <<display, segments>>
    cur,             \* the write call in progress
    opIdx,           \* index of the bus operation in progress within cur
    stepIdx,         \* pin writes of that operation already done
    calls,           \* per display: the _start/_write_byte/_stop calls made so far
    sampled,         \* data-line levels at the rising clock edges of the call in progress
    wb               \* the argument of a _write_byte call run alone (SpecByte)

mainVars == <<pc, now, last_data_time, error_shown, line, writes, log>>
tempVars == <<tpc, temp, tres>>
errVars  == <<epc, ecode, eres>>
busVars  == <<bpc, clk, dio, brightness, queue, cur, opIdx, stepIdx, calls, sampled, wb>>
vars     == <<mainVars, tempVars, errVars, iters, busVars>>

-----------------------------------------------------------------------------
(* Bounds of the model *)

\* the clock stops advancing at MaxTime seconds
MaxTime == 26
\* SpecTemp draws temperatures from -MaxBelowZero10/10 .. MaxTemp10/10
MaxTemp10 == 10010
MaxBelowZero10 == 15
\* SpecWire runs MaxIter iterations of the loop
MaxIter == 2

-----------------------------------------------------------------------------
(* Segment patterns, lines 52-58 *)

DIGITS == <<63, 6, 91, 79, 102, 109, 125, 7, 127, 111>>
DEGREE == 99
C == 57
DASH == 64
E == 121

Displays == {"cpu", "gpu"}

\* Python's DIGITS[i]: valid for -len <= i < len, IndexError otherwise
IndexOK(i) == (0 - Len(DIGITS)) <= i /\ i < Len(DIGITS)
DigitAt(i) == DIGITS[(i % Len(DIGITS)) + 1]

-----------------------------------------------------------------------------
(* Floats *)

Num(t) == [k |-> "num", t |-> t]
NaN    == [k |-> "nan", t |-> 0]
PosInf == [k |-> "inf", t |-> 0]
NegInf == [k |-> "ninf", t |-> 0]

\* temp == n, temp < n, temp > n, temp >= n for an integer n (nan compares false)
FloatEq(x, n) == x.k = "num" /\ x.t = n * 10
FloatLt(x, n) == (x.k = "num" /\ x.t < n * 10) \/ x.k = "ninf"
FloatGt(x, n) == (x.k = "num" /\ x.t > n * 10) \/ x.k = "inf"
FloatGe(x, n) == (x.k = "num" /\ x.t >= n * 10) \/ x.k = "inf"

\* int(round(x)) of a finite x: nearest integer, a tie going to the even one
round(x) ==
    LET q == x.t \div 10
        r == x.t % 10
    IN  IF r < 5 THEN q
        ELSE IF r > 5 THEN q + 1
        ELSE IF q % 2 = 0 THEN q ELSE q + 1

-----------------------------------------------------------------------------
(* display_temp, lines 91-131.  A call returns what it raised and the      *)
(* segments it passed to display.write.                                    *)

Wrote(segments) == [exc |-> "none", writes |-> <<segments>>]
Raised(e) == [exc |-> e, writes |-> <<>>]

\* line 100 with another limit, and without the test for negatives
OutOfRange_Above9999(t) == FloatLt(t, 0) \/ FloatGt(t, 9999)
OutOfRange_NoNegative(t) == FloatGt(t, 999)
\* line 100
OutOfRange(t) == FloatLt(t, 0) \/ FloatGt(t, 999)

\* lines 109-117: the branch temp >= 100
ThreeDigits(temp_int0) ==
    LET temp_int == IF temp_int0 > 999 THEN 999 ELSE temp_int0
        hundreds == temp_int \div 100
        tens == (temp_int % 100) \div 10
        ones == temp_int % 10
    IN  IF ~IndexOK(hundreds) \/ ~IndexOK(tens) \/ ~IndexOK(ones)
        THEN Raised("IndexError")
        ELSE Wrote(<<DigitAt(hundreds), DigitAt(tens), DigitAt(ones), 0>>)

\* lines 119-131 without the leading blank of lines 121-124
TwoDigits_NoBlank(temp_int) ==
    LET tens == temp_int \div 10
        ones == temp_int % 10
    IN  IF (tens > 0 /\ ~IndexOK(tens)) \/ ~IndexOK(ones)
        THEN Raised("IndexError")
        ELSE Wrote((IF tens > 0 THEN <<0, DigitAt(tens)>> ELSE <<0>>) \o <<DigitAt(ones), C>>)

\* lines 119-131: the branch temp < 100
TwoDigits(temp_int) ==
    LET tens == temp_int \div 10
        ones == temp_int % 10
    IN  IF (tens > 0 /\ ~IndexOK(tens)) \/ ~IndexOK(ones)
        THEN Raised("IndexError")
        ELSE Wrote(<<0, IF tens > 0 THEN DigitAt(tens) ELSE 0, DigitAt(ones), C>>)

display_temp(t) ==
    IF FloatEq(t, 0) THEN Wrote(<<0, DASH, DASH, 0>>)
    ELSE IF OutOfRange(t) THEN Wrote(<<E, DASH, DASH, DASH>>)
    ELSE IF t.k = "nan" THEN Raised("ValueError")   \* int(round(nan))
    ELSE IF FloatGe(t, 100) THEN ThreeDigits(round(t))
    ELSE TwoDigits(round(t))

-----------------------------------------------------------------------------
(* Text: a string is a sequence of one-character strings *)

Whitespace == {" ", "\n", "\r", "\t"}
DigitChars == <<"0", "1", "2", "3", "4", "5", "6", "7", "8", "9">>
IsDigit(c) == \E i \in 1..10 : DigitChars[i] = c
DigitVal(c) == (CHOOSE i \in 1..10 : DigitChars[i] = c) - 1

\* str.strip(): without the leading and trailing whitespace
strip(s) ==
    LET keep == {i \in 1..Len(s) : s[i] \notin Whitespace}
    IN  IF keep = {} THEN <<>>
        ELSE SubSeq(s, CHOOSE i \in keep : \A j \in keep : i <= j,
                       CHOOSE i \in keep : \A j \in keep : j <= i)

\* c in s
Contains(s, c) == \E i \in 1..Len(s) : s[i] = c

\* s.split(sep): the fields between the separators, one more than there are
\* separators
split(s, sep) ==
    LET at == {i \in 1..Len(s) : s[i] = sep}
        \* the position of the k-th separator; 0 and Len(s) + 1 bound the string
        pos(k) == IF k = 0 THEN 0
                  ELSE IF k > Cardinality(at) THEN Len(s) + 1
                  ELSE CHOOSE i \in at : Cardinality({j \in at : j < i}) = k - 1
    IN  [k \in 1..(Cardinality(at) + 1) |-> SubSeq(s, pos(k - 1) + 1, pos(k) - 1)]

\* the number a string of digits writes
DigitsValue(s) ==
    LET v[i \in 0..Len(s)] == IF i = 0 THEN 0 ELSE v[i - 1] * 10 + DigitVal(s[i])
    IN  v[Len(s)]

\* [sign] digits [. digits], at least one digit
IsDecimal(s) ==
    /\ \A i \in 1..Len(s) : IsDigit(s[i]) \/ s[i] = "."
    /\ Cardinality({i \in 1..Len(s) : s[i] = "."}) <= 1
    /\ \E i \in 1..Len(s) : IsDigit(s[i])

\* the value of a decimal in tenths (the inputs carry at most one fractional digit)
Tenths(s) ==
    LET p == split(s, ".")
        frac == IF Len(p) > 1 /\ p[2] # <<>> THEN DigitVal(p[2][1]) ELSE 0
    IN  DigitsValue(p[1]) * 10 + frac

\* float(s) of lines 162-163: the value, or ValueError
float(s) ==
    LET u == strip(s)
        signed == u # <<>> /\ Head(u) \in {"+", "-"}
        neg == u # <<>> /\ Head(u) = "-"
        body == IF signed THEN Tail(u) ELSE u
    IN  IF body = <<"n", "a", "n">> THEN [exc |-> "none", val |-> NaN]
        ELSE IF body = <<"i", "n", "f">>
            THEN [exc |-> "none", val |-> IF neg THEN NegInf ELSE PosInf]
        ELSE IF IsDecimal(body)
            THEN [exc |-> "none", val |-> Num(IF neg THEN 0 - Tenths(body) ELSE Tenths(body))]
        ELSE [exc |-> "ValueError", val |-> NaN]

\* The lines the host sends (as sys.stdin.readline() returns them):
\*   45.0,62.0\n    spec example: an update
\*   abc,62.0\n     spec example: first field not a number
\*   45.0\n         spec example: no separator
\*   \n             an empty line
\*   72.4,105.6\n   two and three digits
\*   0,-5\n         the two sentinels
\*   1000,999.9\n   above the range
\*   99.6,50\n      rounds to 100 below 100, first field
\*   50,99.6\n      rounds to 100 below 100, second field
\*   nan,5\n        not a number, first field
\*   5,nan\n        not a number, second field
\*   5,\n           empty second field
\*   7,8,x\n        a third field
\*   99.6,50,x\n    a third field after a first field that rounds to 100
\*    7 , 8\n       blanks around the fields
\*   -inf,inf\n     infinities
Lines == {
    <<"4", "5", ".", "0", ",", "6", "2", ".", "0", "\n">>,
    <<"a", "b", "c", ",", "6", "2", ".", "0", "\n">>,
    <<"4", "5", ".", "0", "\n">>,
    <<"\n">>,
    <<"7", "2", ".", "4", ",", "1", "0", "5", ".", "6", "\n">>,
    <<"0", ",", "-", "5", "\n">>,
    <<"1", "0", "0", "0", ",", "9", "9", "9", ".", "9", "\n">>,
    <<"9", "9", ".", "6", ",", "5", "0", "\n">>,
    <<"9", "9", ".", "6", ",", "5", "0", ",", "x", "\n">>,
    <<"5", "0", ",", "9", "9", ".", "6", "\n">>,
    <<"n", "a", "n", ",", "5", "\n">>,
    <<"5", ",", "n", "a", "n", "\n">>,
    <<"5", ",", "\n">>,
    <<"7", ",", "8", ",", "x", "\n">>,
    <<" ", "7", " ", ",", " ", "8", "\n">>,
    <<"-", "i", "n", "f", ",", "i", "n", "f", "\n">>
}

NoData == <<"no data">>
NoTime == 0 - 1

-----------------------------------------------------------------------------
(* Render controller, lines 64-89: the display.write calls each makes *)

show_status_CpuOnly(code) ==
    IF code \in {1, 2, 3} THEN << <<"cpu", <<DigitAt(code), 0, 0, 0>>>> >> ELSE <<>>

show_status(code) ==
    IF code = 1 THEN << <<"cpu", <<DigitAt(1), 0, 0, 0>>>>, <<"gpu", <<DigitAt(1), 0, 0, 0>>>> >>
    ELSE IF code = 2 THEN << <<"cpu", <<DigitAt(2), 0, 0, 0>>>>, <<"gpu", <<DigitAt(2), 0, 0, 0>>>> >>
    ELSE IF code = 3 THEN << <<"cpu", <<DigitAt(3), 0, 0, 0>>>>, <<"gpu", <<DigitAt(3), 0, 0, 0>>>> >>
    ELSE <<>>

show_error_SwappedDigits(error_code) ==
    LET tens == error_code \div 10
        ones == error_code % 10
    IN  << <<"cpu", <<E, DASH, DigitAt(ones), DigitAt(tens)>>>>,
           <<"gpu", <<E, DASH, DigitAt(ones), DigitAt(tens)>>>> >>

\* for the codes 0..99 (tens and ones index DIGITS)
show_error(error_code) ==
    LET tens == error_code \div 10
        ones == error_code % 10
    IN  << <<"cpu", <<E, DASH, DigitAt(tens), DigitAt(ones)>>>>,
           <<"gpu", <<E, DASH, DigitAt(tens), DigitAt(ones)>>>> >>

-----------------------------------------------------------------------------
(* The polling loop, lines 150-192.  The operators below thread a record   *)
(* s through the statements of one iteration:                              *)
(*   s.last_data_time, s.error_shown   the globals                         *)
(*   s.writes, s.log                   the display.write and print calls   *)
(*   s.exc                             the exception being raised, if any  *)
(*   s.sleep                           the sleep that ends the iteration,  *)
(*                                     in tenths of a second               *)

TimeoutSecs == 10

\* except <cls>: which raised exceptions the clause catches
Catches(cls, exc) ==
    \/ cls = "Exception" /\ exc \in {"ValueError", "IndexError"}
    \/ cls = exc

\* print(...)
print(s, msg) == [s EXCEPT !.log = Append(s.log, msg)]

\* the statement is skipped while an exception is being raised
Raising(s) == s.exc # "none"

\* what a display_temp call returned, r, recorded as calls on display
Record(s, display, r) ==
    [s EXCEPT !.writes = s.writes \o [i \in 1..Len(r.writes) |-> <<display, r.writes[i]>>],
              !.exc = r.exc]

\* display_temp(display, value) as lines 165-166 call it
CallDisplayTemp(s, display, value) ==
    IF Raising(s) THEN s ELSE Record(s, display, display_temp(value))

\* lines 168-171
MarkUpdated(s, t) ==
    IF Raising(s) THEN s
    ELSE print([s EXCEPT !.last_data_time = t, !.error_shown = FALSE], "Displayed")

\* lines 162-171 with line 165 moved above line 163
Update_DisplayBetweenParses(s, cpu_temp, gpu_temp, t) ==
    IF cpu_temp.exc # "none" THEN [s EXCEPT !.exc = cpu_temp.exc]
    ELSE IF gpu_temp.exc # "none"
        THEN [CallDisplayTemp(s, "cpu", cpu_temp.val) EXCEPT !.exc = gpu_temp.exc]
    ELSE MarkUpdated(
            CallDisplayTemp(CallDisplayTemp(s, "cpu", cpu_temp.val), "gpu", gpu_temp.val), t)

\* lines 165-166 in the other order
Update_GpuFirst(s, cpu_temp, gpu_temp, t) ==
    IF cpu_temp.exc # "none" THEN [s EXCEPT !.exc = cpu_temp.exc]
    ELSE IF gpu_temp.exc # "none" THEN [s EXCEPT !.exc = gpu_temp.exc]
    ELSE MarkUpdated(
            CallDisplayTemp(CallDisplayTemp(s, "gpu", gpu_temp.val), "cpu", cpu_temp.val), t)

\* lines 162-171 with the two fields converted: cpu_temp and gpu_temp are
\* what float() returned
Update(s, cpu_temp, gpu_temp, t) ==
    IF cpu_temp.exc # "none" THEN [s EXCEPT !.exc = cpu_temp.exc]
    ELSE IF gpu_temp.exc # "none" THEN [s EXCEPT !.exc = gpu_temp.exc]
    ELSE MarkUpdated(
            CallDisplayTemp(CallDisplayTemp(s, "cpu", cpu_temp.val), "gpu", gpu_temp.val), t)

\* lines 162-171: the body of the inner try
ParseAndDisplay(s, parts, t) == Update(s, float(parts[1]), float(parts[2]), t)

\* lines 172-175 showing the error only while the latch is clear
OnValueError_Suppressed(s) ==
    IF Raising(s) /\ Catches("ValueError", s.exc)
    THEN IF s.error_shown THEN [s EXCEPT !.exc = "none"]
         ELSE [print(s, "Error parsing data") EXCEPT
                  !.writes = s.writes \o show_error(10),
                  !.error_shown = TRUE,
                  !.exc = "none"]
    ELSE s

\* lines 172-175: except ValueError
OnValueError(s) ==
    IF Raising(s) /\ Catches("ValueError", s.exc)
    THEN [print(s, "Error parsing data") EXCEPT
              !.writes = s.writes \o show_error(10),
              !.error_shown = TRUE,
              !.exc = "none"]
    ELSE s

\* lines 159-175: the line holds a separator
WithSeparator(s, stripped, t) == OnValueError(ParseAndDisplay(s, split(stripped, ","), t))

\* lines 176-179 without line 179
NoSeparator_NoLatch(s) ==
    [print(s, "Invalid format") EXCEPT !.writes = s.writes \o show_error(11)]

\* lines 176-179: the line holds no separator
NoSeparator(s) ==
    [print(s, "Invalid format") EXCEPT
        !.writes = s.writes \o show_error(11),
        !.error_shown = TRUE]

\* lines 156-179: the line read, stripped
ProcessLine(s, stripped, t) ==
    IF stripped = <<>> THEN s
    ELSE IF Contains(stripped, ",") THEN WithSeparator(print(s, "Received"), stripped, t)
    ELSE NoSeparator(print(s, "Received"))

\* lines 153-179: poll, and process the line
PollAndProcess(s, polled, t) ==
    IF polled = NoData THEN s ELSE ProcessLine(s, strip(polled), t)

\* lines 182-185 without the test of error_shown
TimeoutCheck_NoLatch(s, t) ==
    IF Raising(s) THEN s
    ELSE IF (t - s.last_data_time) > TimeoutSecs
    THEN [print(s, "Error: No data received") EXCEPT
              !.writes = s.writes \o show_error(20),
              !.error_shown = TRUE]
    ELSE s

\* lines 182-185: the timeout check
TimeoutCheck(s, t) ==
    IF Raising(s) THEN s
    ELSE IF ~s.error_shown /\ (t - s.last_data_time) > TimeoutSecs
    THEN [print(s, "Error: No data received") EXCEPT
              !.writes = s.writes \o show_error(20),
              !.error_shown = TRUE]
    ELSE s

\* lines 151-187: the body of the outer try
TryBody(s, polled, t) == TimeoutCheck(PollAndProcess(s, polled, t), t)

\* line 189 catching ValueError alone
OuterClass_ValueError == "ValueError"
\* line 189: the class the outer clause catches
OuterClass == "Exception"

\* lines 189-192: except Exception
OnException(s) ==
    IF Raising(s) /\ Catches(OuterClass, s.exc)
    THEN [print(s, "Exception") EXCEPT
              !.writes = s.writes \o show_error(99),
              !.exc = "none",
              !.sleep = 10]
    ELSE s

\* the globals at the top of an iteration
Entry(ldt, es) ==
    [last_data_time |-> ldt, error_shown |-> es,
     writes |-> <<>>, log |-> <<>>, exc |-> "none", sleep |-> 1]

\* one iteration of the loop, lines 150-192
Iteration(polled) ==
    OnException(TryBody(Entry(last_data_time, error_shown), polled, now))

\* the seconds the clock may advance over a sleep of n tenths of a second
SleepAdvance(n) == {n \div 10, (n + 9) \div 10}

\* one iteration of the loop on the globals
LoopMain(polled, dt) ==
    /\ pc = "loop"
    /\ \E r \in {Iteration(polled)} :
           /\ line' = polled
           /\ writes' = r.writes
           /\ log' = r.log
           /\ last_data_time' = r.last_data_time
           /\ error_shown' = r.error_shown
           /\ IF r.exc # "none"
              THEN pc' = "halted" /\ now' = now
              ELSE /\ pc' = "loop"
                   /\ dt \in SleepAdvance(r.sleep)
                   /\ now + dt <= MaxTime
                   /\ now' = now + dt

Loop(polled, dt) ==
    /\ LoopMain(polled, dt)
    /\ UNCHANGED <<tempVars, errVars, iters, busVars>>

\* lines 153-154 find nothing to read
LoopNoData == \E dt \in 0..1 : Loop(NoData, dt)
\* lines 153-154 read a line
LoopLine == \E l \in Lines, dt \in 0..1 : Loop(l, dt)

\* lines 133-136
Status1Main ==
    /\ pc = "status1"
    /\ log' = <<"Status 1: Boot successful">>
    /\ writes' = show_status(1)
    /\ now' = now + 2
    /\ pc' = "status2"
    /\ UNCHANGED <<last_data_time, error_shown, line>>

Status1 == Status1Main /\ UNCHANGED <<tempVars, errVars, iters, busVars>>

\* lines 138-141
Status2Main ==
    /\ pc = "status2"
    /\ log' = <<"Status 2: Waiting for serial connection">>
    /\ writes' = show_status(2)
    /\ now' = now + 1
    /\ pc' = "status3"
    /\ UNCHANGED <<last_data_time, error_shown, line>>

Status2 == Status2Main /\ UNCHANGED <<tempVars, errVars, iters, busVars>>

\* lines 143-148
Status3Main ==
    /\ pc = "status3"
    /\ log' = <<"Status 3: Connected, waiting for temperature data">>
    /\ writes' = show_status(3)
    /\ last_data_time' = now
    /\ error_shown' = FALSE
    /\ pc' = "loop"
    /\ UNCHANGED <<now, line>>

Status3 == Status3Main /\ UNCHANGED <<tempVars, errVars, iters, busVars>>

\* show_error not called alone
ErrIdle ==
    /\ epc = "idle"
    /\ ecode = 0
    /\ eres = <<>>

MainInit ==
    /\ pc = "status1"
    /\ now = 0
    /\ last_data_time = NoTime
    /\ error_shown = FALSE
    /\ line = NoData
    /\ writes = <<>>
    /\ log = <<>>

-----------------------------------------------------------------------------
(* display_temp alone: one call on a temperature drawn from a range *)

TempInputs ==
    {Num(t) : t \in (0 - MaxBelowZero10)..MaxTemp10} \cup {NaN, PosInf, NegInf}

NoResult == [exc |-> "none", writes |-> <<>>]

TempIdle ==
    /\ tpc = "idle"
    /\ temp = [display |-> "cpu", value |-> Num(0)]
    /\ tres = NoResult

TempInit ==
    /\ tpc = "call"
    /\ temp \in [display : Displays, value : TempInputs]
    /\ tres = NoResult

\* display_temp(display, temp) as lines 165-166 call it
DisplayTempCall ==
    /\ tpc = "call"
    /\ LET r == Record(NoResult, temp.display, display_temp(temp.value))
       IN  tres' = [exc |-> r.exc, writes |-> r.writes]
    /\ tpc' = "return"
    /\ UNCHANGED <<temp, mainVars, errVars, iters, busVars>>

-----------------------------------------------------------------------------
(* show_error alone: one call on an error code whose tens and ones index   *)
(* DIGITS                                                                  *)

ErrCodes == 0..(10 * Len(DIGITS) - 1)

ErrInit ==
    /\ epc = "call"
    /\ ecode \in ErrCodes
    /\ eres = <<>>

ShowErrorCall ==
    /\ epc = "call"
    /\ eres' = show_error(ecode)
    /\ epc' = "return"
    /\ UNCHANGED <<ecode, mainVars, tempVars, iters, busVars>>

-----------------------------------------------------------------------------
(* TM1637, lines 6-49 *)

Bit(b, i) == (b \div (2 ^ i)) % 2
\* a | b on 8 bits
BitOr(a, b) ==
    LET or[i \in 0..8] ==
            IF i = 8 THEN 0
            ELSE (IF Bit(a, i) = 1 \/ Bit(b, i) = 1 THEN 2 ^ i ELSE 0) + or[i + 1]
    IN  or[0]

\* the calls write makes on self
StartOp == [op |-> "start", b |-> 0]
StopOp == [op |-> "stop", b |-> 0]
ByteOp(b) == [op |-> "byte", b |-> b]

\* lines 12-14: the pin writes of _start
start_pins == << <<"dio", 0>> >>

\* _stop raising the clock before it lowers the data line
stop_pins_ClockFirst == << <<"clk", 1>>, <<"dio", 0>>, <<"dio", 1>> >>

\* lines 16-21: the pin writes of _stop
stop_pins == << <<"dio", 0>>, <<"clk", 1>>, <<"dio", 1>> >>

\* _write_byte sending the most significant bit first
write_byte_pins_MsbFirst(b) ==
    [k \in 1..27 |->
        IF k <= 24
        THEN LET i == (k - 1) \div 3
                 j == (k - 1) % 3
             IN  IF j = 0 THEN <<"clk", 0>>
                 ELSE IF j = 1 THEN <<"dio", Bit(b, 7 - i)>>
                 ELSE <<"clk", 1>>
        ELSE IF k = 26 THEN <<"clk", 1>> ELSE <<"clk", 0>>]

\* _write_byte without the acknowledge clock of lines 34-36
write_byte_pins_NoAck(b) ==
    [k \in 1..24 |->
        LET i == (k - 1) \div 3
            j == (k - 1) % 3
        IN  IF j = 0 THEN <<"clk", 0>>
            ELSE IF j = 1 THEN <<"dio", Bit(b, i)>>
            ELSE <<"clk", 1>>]

\* lines 23-36: the pin writes of _write_byte(b)
write_byte_pins(b) ==
    [k \in 1..27 |->
        IF k <= 24
        THEN LET i == (k - 1) \div 3
                 j == (k - 1) % 3
             IN  IF j = 0 THEN <<"clk", 0>>
                 ELSE IF j = 1 THEN <<"dio", Bit(b, i)>>
                 ELSE <<"clk", 1>>
        ELSE IF k = 26 THEN <<"clk", 1>> ELSE <<"clk", 0>>]

PinsOf(o) ==
    IF o.op = "start" THEN start_pins
    ELSE IF o.op = "stop" THEN stop_pins
    ELSE write_byte_pins(o.b)

\* lines 38-49 with the address command sent before the data command
write_ops_AddressFirst(segments, br) ==
    <<StartOp, ByteOp(192), StopOp>>
    \o <<StartOp, ByteOp(64)>>
    \o [i \in 1..Len(segments) |-> ByteOp(segments[i])]
    \o <<StopOp>>
    \o <<StartOp, ByteOp(BitOr(136, br)), StopOp>>

\* lines 38-49: the calls of write(segments), in order
write_ops(segments, br) ==
    <<StartOp, ByteOp(64), StopOp>>
    \o <<StartOp, ByteOp(192)>>
    \o [i \in 1..Len(segments) |-> ByteOp(segments[i])]
    \o <<StopOp>>
    \o <<StartOp, ByteOp(BitOr(136, br)), StopOp>>

\* line 10
InitialBrightness == 7

NoCall == [display |-> "cpu", segments |-> <<>>]

BusIdle ==
    /\ bpc = "idle"
    /\ clk = [d \in Displays |-> 0]
    /\ dio = [d \in Displays |-> 0]
    /\ brightness = [d \in Displays |-> InitialBrightness]
    /\ queue = <<>>
    /\ cur = NoCall
    /\ opIdx = 0
    /\ stepIdx = 0
    /\ calls = [d \in Displays |-> <<>>]
    /\ sampled = <<>>
    /\ wb = 0

\* the write calls of one loop iteration that the bus model runs after startup
IterationWrites ==
    {show_error(10), show_error(20)}
    \cup {Record(Record(NoResult, "cpu", display_temp(Num(724))),
                  "gpu", display_temp(Num(1056))).writes}

\* lines 7-10 and 61-62: Pin(id, Pin.OUT) is given no initial value, so the
\* level of each pin after construction is whatever the port held
BusInit ==
    /\ bpc = "next"
    /\ clk \in [Displays -> {0, 1}]
    /\ dio \in [Displays -> {0, 1}]
    /\ brightness = [d \in Displays |-> InitialBrightness]
    /\ \E w \in IterationWrites :
            queue = [i \in 1..Len(show_status(1) \o w) |->
                        [display |-> (show_status(1) \o w)[i][1],
                         segments |-> (show_status(1) \o w)[i][2]]]
    /\ cur = NoCall
    /\ opIdx = 0
    /\ stepIdx = 0
    /\ calls = [d \in Displays |-> <<>>]
    /\ sampled = <<>>
    /\ wb = 0

CurOps == write_ops(cur.segments, brightness[cur.display])
CurOp == CurOps[opIdx]

\* line 38: write(segments) is entered
TM1637_write ==
    /\ bpc = "next"
    /\ queue # <<>>
    /\ cur' = Head(queue)
    /\ queue' = Tail(queue)
    /\ opIdx' = 1
    /\ stepIdx' = 0
    /\ calls' = [calls EXCEPT ![Head(queue).display] = <<>>]
    /\ bpc' = "op"
    /\ UNCHANGED <<clk, dio, brightness, sampled, wb, mainVars, tempVars, errVars, iters>>

\* pin.value(v) on a pin of display d, w = <<pin, v>>; the controller samples
\* the data line when the clock rises.  first: the call in progress begins
PinWrite(d, w, first) ==
    /\ clk' = IF w[1] = "clk" THEN [clk EXCEPT ![d] = w[2]] ELSE clk
    /\ dio' = IF w[1] = "dio" THEN [dio EXCEPT ![d] = w[2]] ELSE dio
    /\ sampled' = (IF first THEN <<>> ELSE sampled)
                    \o (IF w[1] = "clk" /\ w[2] = 1 /\ clk[d] = 0 THEN <<dio[d]>> ELSE <<>>)

\* one pin write of the call in progress; the call returns after its last one,
\* and write returns after its last call
PinStep(kind) ==
    /\ bpc = "op"
    /\ CurOp.op = kind
    /\ LET d == cur.display
           pins == PinsOf(CurOp)
           w == pins[stepIdx + 1]
           last == stepIdx + 1 = Len(pins)
       IN  /\ PinWrite(d, w, stepIdx = 0)
           /\ calls' = IF stepIdx = 0 THEN [calls EXCEPT ![d] = Append(calls[d], CurOp)] ELSE calls
           /\ stepIdx' = IF last THEN 0 ELSE stepIdx + 1
           /\ opIdx' = IF last THEN opIdx + 1 ELSE opIdx
           /\ bpc' = IF last /\ opIdx = Len(CurOps) THEN "next" ELSE "op"
    /\ UNCHANGED <<brightness, queue, cur, wb, mainVars, tempVars, errVars, iters>>

\* lines 12-14
TM1637_start == PinStep("start")
\* lines 16-21
TM1637_stop == PinStep("stop")
\* lines 23-36
TM1637_write_byte == PinStep("byte")

-----------------------------------------------------------------------------
(* _write_byte alone: one call on a byte, on either display, from any pin  *)
(* levels                                                                  *)

ByteValues == 0..(2 ^ 8 - 1)

ByteInit ==
    /\ bpc = "byte"
    /\ wb \in ByteValues
    /\ clk \in [Displays -> {0, 1}]
    /\ dio \in [Displays -> {0, 1}]
    /\ brightness = [d \in Displays |-> InitialBrightness]
    /\ queue = <<>>
    /\ cur \in [display : Displays, segments : {<<>>}]
    /\ opIdx = 0
    /\ stepIdx = 0
    /\ calls = [d \in Displays |-> <<>>]
    /\ sampled = <<>>

\* one pin write of _write_byte(wb); it returns after the last one
WriteByteStep ==
    /\ bpc = "byte"
    /\ LET pins == write_byte_pins(wb)
           last == stepIdx + 1 = Len(pins)
       IN  /\ PinWrite(cur.display, pins[stepIdx + 1], stepIdx = 0)
           /\ stepIdx' = IF last THEN 0 ELSE stepIdx + 1
           /\ bpc' = IF last THEN "byteret" ELSE "byte"
    /\ UNCHANGED <<brightness, queue, cur, opIdx, calls, wb, mainVars, tempVars, errVars, iters>>

-----------------------------------------------------------------------------
(* The program with its display.write calls run at pin level: a startup    *)
(* step or a loop iteration hands the write calls it makes, in order, to   *)
(* the bus, and the single thread takes its next step only after the last  *)
(* of them returned.                                                       *)

\* the lines SpecWire polls
WireLines == {
    <<"4", "5", ".", "0", ",", "6", "2", ".", "0", "\n">>,
    <<"7", "2", ".", "4", ",", "1", "0", "5", ".", "6", "\n">>,
    <<"5", "0", ",", "9", "9", ".", "6", "\n">>,
    <<"a", "b", "c", ",", "6", "2", ".", "0", "\n">>}

\* lines 7-10 and 61-62: the displays after construction, nothing written yet
WireInit ==
    /\ bpc = "next"
    /\ clk \in [Displays -> {0, 1}]
    /\ dio \in [Displays -> {0, 1}]
    /\ brightness = [d \in Displays |-> InitialBrightness]
    /\ queue = <<>>
    /\ cur = NoCall
    /\ opIdx = 0
    /\ stepIdx = 0
    /\ calls = [d \in Displays |-> <<>>]
    /\ sampled = <<>>
    /\ wb = 0

\* every write call made so far has returned
BusQuiet == bpc = "next" /\ queue = <<>>

\* the write calls w, in order, are made next
MakeWrites(w) ==
    /\ queue' = [i \in 1..Len(w) |-> [display |-> w[i][1], segments |-> w[i][2]]]
    /\ UNCHANGED <<bpc, clk, dio, brightness, cur, opIdx, stepIdx, calls, sampled, wb>>

WireStatus1 ==
    /\ BusQuiet
    /\ Status1Main
    /\ MakeWrites(writes')
    /\ UNCHANGED <<tempVars, errVars, iters>>

WireStatus2 ==
    /\ BusQuiet
    /\ Status2Main
    /\ MakeWrites(writes')
    /\ UNCHANGED <<tempVars, errVars, iters>>

WireStatus3 ==
    /\ BusQuiet
    /\ Status3Main
    /\ MakeWrites(writes')
    /\ UNCHANGED <<tempVars, errVars, iters>>

WireLoop(polled, dt) ==
    /\ BusQuiet
    /\ iters < MaxIter
    /\ LoopMain(polled, dt)
    /\ MakeWrites(writes')
    /\ iters' = iters + 1
    /\ UNCHANGED <<tempVars, errVars>>

WireLoopNoData == \E dt \in 0..1 : WireLoop(NoData, dt)
WireLoopLine == \E l \in WireLines, dt \in 0..1 : WireLoop(l, dt)

-----------------------------------------------------------------------------
(* Specifications *)

Init == MainInit /\ TempIdle /\ ErrIdle /\ iters = 0 /\ BusIdle
Next == Status1 \/ Status2 \/ Status3 \/ LoopNoData \/ LoopLine
Spec == Init /\ [][Next]_vars

InitTemp == MainInit /\ TempInit /\ ErrIdle /\ iters = 0 /\ BusIdle
NextTemp == DisplayTempCall
SpecTemp == InitTemp /\ [][NextTemp]_vars

InitErr == MainInit /\ TempIdle /\ ErrInit /\ iters = 0 /\ BusIdle
NextErr == ShowErrorCall
SpecErr == InitErr /\ [][NextErr]_vars

InitByte == MainInit /\ TempIdle /\ ErrIdle /\ iters = 0 /\ ByteInit
NextByte == WriteByteStep
SpecByte == InitByte /\ [][NextByte]_vars

InitWire == MainInit /\ TempIdle /\ ErrIdle /\ iters = 0 /\ WireInit
NextWire ==
    \/ WireStatus1 \/ WireStatus2 \/ WireStatus3 \/ WireLoopNoData \/ WireLoopLine
    \/ TM1637_write \/ TM1637_start \/ TM1637_write_byte \/ TM1637_stop
SpecWire == InitWire /\ [][NextWire]_vars

InitBus == MainInit /\ TempIdle /\ ErrIdle /\ iters = 0 /\ BusInit
NextBus == TM1637_write \/ TM1637_start \/ TM1637_write_byte \/ TM1637_stop
SpecBus == InitBus /\ [][NextBus]_vars

-----------------------------------------------------------------------------
(* Vocabulary of the properties *)

InLog(l, msg) == \E i \in 1..Len(l) : l[i] = msg

\* error_frame(tens*10 + ones) on both displays
ErrorOnBoth(tens, ones) ==
    << <<"cpu", <<E, DASH, DIGITS[tens + 1], DIGITS[ones + 1]>>>>,
       <<"gpu", <<E, DASH, DIGITS[tens + 1], DIGITS[ones + 1]>>>> >>

\* the number of calls in w that write frame to display
CountWrites(w, display, frame) == Cardinality({i \in 1..Len(w) : w[i] = <<display, frame>>})

\* the step is a loop iteration that read the line l
ReadLine(l) == pc = "loop" /\ line' = l /\ l # NoData

\* the fields of a line
Fields(l) == split(strip(l), ",")
HasSeparator(l) == Len(Fields(l)) >= 2
FailsParse(f) == float(f).exc = "ValueError"
ParsesFinite(f) == float(f).exc = "none" /\ float(f).val.k = "num"

\* n is temp (in tenths) rounded to the nearest integer
Nearest(n, t) == 10 * n - 5 <= t /\ t <= 10 * n + 5

DigitPatterns == {DIGITS[i] : i \in 1..Len(DIGITS)}

-----------------------------------------------------------------------------
(* The polling loop *)

\* C1: in an idle iteration with the latch clear and more than 10 seconds
\* since the session clock, show_error(20) is invoked exactly once (one write
\* of the error-20 frame per display) and the latch is set; any other idle
\* iteration writes nothing and leaves the latch and the session clock as
\* they were; show_error(20) is invoked only with the latch clear and more
\* than 10 seconds elapsed, hence not again while the latch stays set; and
\* the latch is cleared only by an iteration that made the Updated transition.
C1_TimeoutOncePerSilence ==
    [][(pc = "loop" /\ pc' = "loop") =>
        /\ (line' = NoData /\ ~error_shown /\ now - last_data_time > 10)
              => (writes' = ErrorOnBoth(2, 0) /\ error_shown')
        /\ (line' = NoData /\ ~(~error_shown /\ now - last_data_time > 10))
              => (writes' = <<>> /\ error_shown' = error_shown)
        /\ line' = NoData => last_data_time' = last_data_time
        /\ (\E i \in 1..Len(writes') : writes'[i] \in {ErrorOnBoth(2, 0)[1], ErrorOnBoth(2, 0)[2]})
              => /\ ~error_shown
                 /\ now - last_data_time > 10
                 /\ CountWrites(writes', "cpu", ErrorOnBoth(2, 0)[1][2]) = 1
                 /\ CountWrites(writes', "gpu", ErrorOnBoth(2, 0)[2][2]) = 1
                 /\ error_shown'
        /\ (error_shown /\ ~error_shown') => InLog(log', "Displayed")
      ]_vars

\* C1 witness: a timeout fired in a silence window that an Updated transition opened
C1_Witness ==
    /\ pc = "loop"
    /\ line = NoData
    /\ writes = ErrorOnBoth(2, 0)
    /\ error_shown
    /\ last_data_time > 3
    /\ now - last_data_time > 10

\* C2: every line with a separator whose first two fields parse as (finite)
\* numbers gives one temperature frame to the CPU display and one to the GPU
\* display, resets the session clock to the current time and clears the latch,
\* within the iteration that read it.
C2_UpdatedOnEveryNumericLine ==
    [][\A l \in Lines :
        (ReadLine(l) /\ HasSeparator(l)
            /\ ParsesFinite(Fields(l)[1]) /\ ParsesFinite(Fields(l)[2]))
        => /\ Len(writes') = 2
           /\ writes'[1][1] = "cpu" /\ Len(writes'[1][2]) = 4
           /\ writes'[2][1] = "gpu" /\ Len(writes'[2][2]) = 4
           /\ last_data_time' = now
           /\ ~error_shown'
      ]_vars

\* C3: a line with a separator whose first or second field fails numeric
\* parsing shows error 10 on both displays and writes nothing else, sets the
\* latch and leaves the session clock as it was.
C3_ParseError ==
    [][\A l \in Lines :
        (ReadLine(l) /\ HasSeparator(l)
            /\ (FailsParse(Fields(l)[1]) \/ FailsParse(Fields(l)[2])))
        => /\ writes' = ErrorOnBoth(1, 0)
           /\ error_shown'
           /\ last_data_time' = last_data_time
      ]_vars

\* C3 witness: an iteration read a line whose second field does not parse
C3_Witness ==
    /\ pc = "loop"
    /\ line # NoData
    /\ HasSeparator(line)
    /\ ~FailsParse(Fields(line)[1])
    /\ FailsParse(Fields(line)[2])
    /\ writes = ErrorOnBoth(1, 0)
    /\ error_shown

\* C4: a non-empty line without a separator shows error 11 on both displays,
\* sets the latch and leaves the session clock as it was.
C4_FormatError ==
    [][\A l \in Lines :
        (ReadLine(l) /\ strip(l) # <<>> /\ ~Contains(l, ","))
        => /\ writes' = ErrorOnBoth(1, 1)
           /\ error_shown'
           /\ last_data_time' = last_data_time
      ]_vars

\* C4 witness: an iteration read a non-empty line without a separator
C4_Witness ==
    /\ pc = "loop"
    /\ line # NoData
    /\ strip(line) # <<>>
    /\ ~Contains(line, ",")
    /\ writes = ErrorOnBoth(1, 1)
    /\ error_shown

\* C5: whatever line an iteration reads, the iteration ends back at the poll
\* of the loop: no exception leaves the loop.
C5_LoopNeverHalts == [][pc = "loop" => pc' = "loop"]_vars

\* C5 witness: an iteration whose processing failed unexpectedly ended at the poll
C5_Witness ==
    /\ pc = "loop"
    /\ line # NoData
    /\ InLog(log, "Exception")
    /\ Len(writes) >= 2
    /\ writes[Len(writes)] = ErrorOnBoth(9, 9)[2]

-----------------------------------------------------------------------------
(* TM1637.write *)

\* C6: when write(frame) with a 4-entry frame returns, the calls it made on
\* the display's bus are exactly begin, 0x40, end; begin, 0xC0, the four
\* frame bytes, end; begin, 0x88 | brightness, end; and brightness is as set
\* by the constructor.
C6_WriteSequence ==
    (bpc = "next" /\ Len(cur.segments) = 4) =>
        /\ calls[cur.display] =
              << StartOp, ByteOp(64), StopOp,
                 StartOp, ByteOp(192), ByteOp(cur.segments[1]), ByteOp(cur.segments[2]),
                          ByteOp(cur.segments[3]), ByteOp(cur.segments[4]), StopOp,
                 StartOp, ByteOp(136 + brightness[cur.display]), StopOp >>
        /\ brightness[cur.display] = 7

\* C6 witness: a write of a 4-entry frame has returned
C6_Witness ==
    /\ bpc = "next"
    /\ Len(cur.segments) = 4
    /\ Len(calls[cur.display]) = 13
    /\ calls[cur.display][6] = ByteOp(cur.segments[1])

\* C7: whenever _start is about to drive the data line low, the clock line of
\* that display is high.
C7_StartWithClockHigh ==
    (bpc = "op" /\ CurOp.op = "start") => clk[cur.display] = 1

-----------------------------------------------------------------------------
(* display_temp *)

Returned == tpc = "return"
OneFrame(frame) == tres.exc = "none" /\ tres.writes = << <<temp.display, frame>> >>

\* C8 as stated: 999.9 is displayed as 999 followed by a blank.
C8_Clamps999Point9 ==
    (Returned /\ temp.value = Num(9999)) => OneFrame(<<DIGITS[10], DIGITS[10], DIGITS[10], 0>>)

\* C8 amended: 999.9 is above 999 and gives the out-of-range frame; every
\* temperature from 100 to 999 is displayed as the three digits of its
\* rounding, which is at most 999, followed by a blank.
C8_ThreeDigitsNeverOverflow ==
    Returned =>
        /\ temp.value = Num(9999) => OneFrame(<<E, DASH, DASH, DASH>>)
        /\ (temp.value.k = "num" /\ 1000 <= temp.value.t /\ temp.value.t <= 9990)
              => \E h \in 1..9, t \in 0..9, o \in 0..9 :
                    /\ Nearest(100 * h + 10 * t + o, temp.value.t)
                    /\ OneFrame(<<DIGITS[h + 1], DIGITS[t + 1], DIGITS[o + 1], 0>>)

\* C8 witness: display_temp returned from 999.9 with the out-of-range frame
C8_Witness ==
    Returned /\ temp.value = Num(9999) /\ OneFrame(<<E, DASH, DASH, DASH>>)

\* C9: for 0 < temp < 100, display_temp writes exactly one frame
\* [blank, tens or blank, ones, C] where tens and ones, each in 0..9, are the
\* digits of temp rounded to the nearest integer.
C9_TwoDigitFrame ==
    (Returned /\ temp.value.k = "num" /\ 0 < temp.value.t /\ temp.value.t < 1000)
        => \E t \in 0..9, o \in 0..9 :
              /\ Nearest(10 * t + o, temp.value.t)
              /\ OneFrame(<<0, IF t = 0 THEN 0 ELSE DIGITS[t + 1], DIGITS[o + 1], C>>)

\* C10: for temp < 0 or temp > 999 display_temp writes [E, dash, dash, dash],
\* for temp == 0 it writes [blank, dash, dash, blank], and in both cases no
\* entry of the frame written is a digit pattern.
C10_Sentinels ==
    Returned =>
        /\ (FloatLt(temp.value, 0) \/ FloatGt(temp.value, 999))
              => OneFrame(<<E, DASH, DASH, DASH>>)
        /\ FloatEq(temp.value, 0) => OneFrame(<<0, DASH, DASH, 0>>)
        /\ (FloatLt(temp.value, 0) \/ FloatGt(temp.value, 999) \/ FloatEq(temp.value, 0))
              => \A i \in 1..Len(tres.writes) : \A j \in 1..Len(tres.writes[i][2]) :
                    tres.writes[i][2][j] \notin DigitPatterns

\* C10 witness: display_temp returned from a negative temperature
C10_Witness ==
    /\ Returned
    /\ temp.value.k = "num" /\ temp.value.t < 0
    /\ OneFrame(<<E, DASH, DASH, DASH>>)

-----------------------------------------------------------------------------
\* C11: for every error code 0..99, show_error(code) writes to both displays
\* the same frame [E, DASH, DIGITS[tens], DIGITS[ones]], with tens and ones
\* in 0..9 and code = tens * 10 + ones.
C11_ErrorFrame ==
    epc = "return" =>
        /\ ecode \in 0..99
        /\ \E tens \in 0..9, ones \in 0..9 :
              /\ ecode = tens * 10 + ones
              /\ eres = ErrorOnBoth(tens, ones)

\* show_error(47) returned
C11_Witness == epc = "return" /\ ecode = 47 /\ eres = ErrorOnBoth(4, 7)

-----------------------------------------------------------------------------
\* status_frame(code) on both displays
StatusOnBoth(code) ==
    << <<"cpu", <<DIGITS[code + 1], 0, 0, 0>>>>,
       <<"gpu", <<DIGITS[code + 1], 0, 0, 0>>>> >>

InStartup == pc \in {"status1", "status2", "status3"}

\* C12: the program starts at status 1; before the first poll of the input
\* both displays are written with status 1, then status 2, then status 3,
\* in that order and once each; the session clock is set only after status 3
\* has been shown, and the error latch starts false.
C12_StartupOrder ==
    /\ pc = "status1"
    /\ [][ /\ InStartup => /\ line = NoData /\ line' = NoData
                           /\ last_data_time = NoTime
           /\ pc = "status1" => pc' = "status2" /\ writes' = StatusOnBoth(1)
           /\ pc = "status2" => pc' = "status3" /\ writes' = StatusOnBoth(2)
           /\ pc = "status3" => /\ pc' = "loop"
                                /\ writes' = StatusOnBoth(3)
                                /\ last_data_time' = now
                                /\ error_shown' = FALSE
           /\ ~InStartup => ~InStartup'
       ]_vars

\* C12 witness: status 3 has just been shown, 3 s after boot, and the clock
\* started
C12_Witness ==
    /\ pc = "loop"
    /\ writes = StatusOnBoth(3)
    /\ now = 3
    /\ last_data_time = 3
    /\ ~error_shown

-----------------------------------------------------------------------------
\* the byte whose bit i is the level levels[i + 1], i in 0..7
FromBits(levels) ==
    LET sum[i \in 0..8] == IF i = 8 THEN 0 ELSE levels[i + 1] * 2 ^ i + sum[i + 1]
    IN  sum[0]

ByteReturned == bpc = "byteret"

\* C13: _write_byte sends the least significant bit first: for every b in
\* 0..255 the data level at the i-th rising clock edge (i = 0..7) is bit i of
\* b, and the eight sampled levels reconstruct b.
C13_LsbFirst ==
    /\ bpc \in {"byte", "byteret"} =>
          \A i \in 0..7 : i + 1 <= Len(sampled) => sampled[i + 1] = Bit(wb, i)
    /\ ByteReturned => Len(sampled) >= 8 /\ FromBits(sampled) = wb

\* C13 witness: _write_byte(0x63) returned, the degree sign, low bits first
C13_Witness ==
    /\ ByteReturned
    /\ wb = DEGREE
    /\ SubSeq(sampled, 1, 8) = <<1, 1, 0, 0, 0, 1, 1, 0>>

\* C14: every _write_byte makes exactly nine clock pulses, eight for the data
\* bits and one acknowledge pulse during which the data line is not driven,
\* and leaves the clock low when it returns.
C14_NinePulses ==
    [][ bpc = "byte" =>
          /\ Len(sampled') <= 9
          /\ stepIdx >= 24 => dio' = dio
          /\ Len(sampled) = 8 /\ Len(sampled') = 9 => stepIdx >= 24
          /\ ByteReturned' => /\ Len(sampled') = 9
                              /\ clk'[cur.display] = 0
                              /\ clk[cur.display] = 1
      ]_vars

\* C14 witness: _write_byte(0xff) returned after nine rising clock edges with
\* the data line still at the level of bit 7
C14_Witness ==
    /\ ByteReturned
    /\ wb = 255
    /\ Len(sampled) = 9
    /\ clk[cur.display] = 0
    /\ dio[cur.display] = 1

-----------------------------------------------------------------------------
\* some call in w writes the frame of error tens*10 + ones
ShowsError(w, tens, ones) ==
    \E i \in 1..Len(w) : w[i][2] = ErrorOnBoth(tens, ones)[1][2]

\* C15 as stated: once the latch is set, no iteration shows error 10, 11 or
\* 20 until an Updated transition has cleared it.
C15_NoErrorWhileLatched ==
    [][(pc = "loop" /\ error_shown) =>
        /\ ~ShowsError(writes', 1, 0)
        /\ ~ShowsError(writes', 1, 1)
        /\ ~ShowsError(writes', 2, 0)
      ]_vars

\* C15 amended: once the latch is set, no iteration shows error 20 until an
\* Updated transition has cleared it, and only an Updated transition clears
\* it; a line that fails numeric parsing or has no separator still shows
\* error 10 or 11 while the latch is set.
C15_TimeoutSuppressedOnly ==
    [][(pc = "loop" /\ error_shown) =>
        /\ ~ShowsError(writes', 2, 0)
        /\ ~error_shown' => InLog(log', "Displayed")
        /\ \A l \in Lines :
              (ReadLine(l) /\ HasSeparator(l)
                  /\ (FailsParse(Fields(l)[1]) \/ FailsParse(Fields(l)[2])))
              => writes' = ErrorOnBoth(1, 0) /\ error_shown'
        /\ \A l \in Lines :
              (ReadLine(l) /\ strip(l) # <<>> /\ ~Contains(l, ","))
              => writes' = ErrorOnBoth(1, 1) /\ error_shown'
      ]_vars

\* C15 witness: an idle iteration that began more than 10 s after the session
\* clock with the latch set, and showed nothing
C15_Witness ==
    /\ pc = "loop"
    /\ line = NoData
    /\ error_shown
    /\ writes = <<>>
    /\ now - last_data_time > 11

-----------------------------------------------------------------------------
\* the line l has two fields that parse, and display_temp fails on one of them
FailsInDisplayTemp(l) ==
    /\ HasSeparator(l)
    /\ ~FailsParse(Fields(l)[1])
    /\ ~FailsParse(Fields(l)[2])
    /\ \/ display_temp(float(Fields(l)[1]).val).exc # "none"
       \/ display_temp(float(Fields(l)[2]).val).exc # "none"

\* the last two calls in w show error 99 on both displays
EndsWithError99(w) ==
    /\ Len(w) >= 2
    /\ SubSeq(w, Len(w) - 1, Len(w)) = ErrorOnBoth(9, 9)

\* C16: when the processing of a polled line fails other than by a numeric
\* parse failure (here: inside display_temp, on fields that parsed), the
\* iteration shows error 99 on both displays, skips the timeout check, and
\* leaves the latch and the session clock as they were.
C16_UnknownError ==
    [][\A l \in Lines :
        (ReadLine(l) /\ FailsInDisplayTemp(l))
        => /\ EndsWithError99(writes')
           /\ ~ShowsError(writes', 2, 0)
           /\ error_shown' = error_shown
           /\ last_data_time' = last_data_time
      ]_vars


-----------------------------------------------------------------------------
\* a DisplayFrame: four segment patterns of eight bits
IsFrame(segments) ==
    /\ Len(segments) = 4
    /\ \A j \in 1..Len(segments) : segments[j] \in 0..255

\* C18: every frame passed to a display's write, in startup, for any status,
\* any error code shown and any parsed temperature pair, has exactly four
\* entries, each an 8-bit value in 0..255.
C18_FrameInvariant ==
    \A i \in 1..Len(writes) :
        /\ writes[i][1] \in Displays
        /\ IsFrame(writes[i][2])

\* C18 witness: an iteration wrote a two-digit frame to the CPU display and a
\* three-digit frame to the GPU display
C18_Witness ==
    /\ pc = "loop"
    /\ Len(writes) = 2
    /\ writes[1] = <<"cpu", <<0, DIGITS[8], DIGITS[3], C>>>>
    /\ writes[2] = <<"gpu", <<DIGITS[2], DIGITS[1], DIGITS[7], 0>>>>


-----------------------------------------------------------------------------
\* the line l has two separators or more, and its first two fields parse as
\* numbers
ExtraFields(l) ==
    /\ Len(Fields(l)) >= 3
    /\ ParsesFinite(Fields(l)[1])
    /\ ParsesFinite(Fields(l)[2])

\* C19: a line with two or more separators whose first two fields parse as
\* numbers makes the Updated transition from its first two fields alone: the
\* CPU display gets the frame of the first field, the GPU display the frame
\* of the second, the session clock is reset and the latch cleared, whatever
\* the later fields hold.
C19_ExtraFieldsIgnored ==
    [][\A l \in Lines :
        (ReadLine(l) /\ ExtraFields(l))
        => /\ Len(writes') = 2
           /\ writes'[1][1] = "cpu"
           /\ display_temp(float(Fields(l)[1]).val) = Wrote(writes'[1][2])
           /\ writes'[2][1] = "gpu"
           /\ display_temp(float(Fields(l)[2]).val) = Wrote(writes'[2][2])
           /\ last_data_time' = now
           /\ ~error_shown'
      ]_vars


-----------------------------------------------------------------------------
\* C20: during a write() on a display the data line changes level while the
\* clock line is high only as the falling edge of _start or the final rising
\* edge of _stop; inside _write_byte and at the first step of _stop it
\* changes only while the clock line is low.  Only the display being written
\* has its data line changed.
C20_BusFraming ==
    [][\A d \in Displays :
        dio'[d] # dio[d] =>
            /\ bpc = "op"
            /\ cur.display = d
            /\ clk'[d] = clk[d]
            /\ clk[d] = 1 =>
                  \/ CurOp.op = "start" /\ dio'[d] = 0
                  \/ CurOp.op = "stop" /\ stepIdx = 2 /\ dio'[d] = 1
            /\ (CurOp.op = "byte" \/ (CurOp.op = "stop" /\ stepIdx = 0)) => clk[d] = 0
      ]_vars

\* C20 witness: inside the third _write_byte of a write (a segment byte) the
\* data line has been raised for bit 1 while the clock is low
C20_Witness ==
    /\ bpc = "op"
    /\ opIdx = 6
    /\ CurOp.op = "byte"
    /\ Bit(CurOp.b, 0) = 0
    /\ Bit(CurOp.b, 1) = 1
    /\ stepIdx = 5
    /\ clk[cur.display] = 0
    /\ dio[cur.display] = 1


-----------------------------------------------------------------------------
\* the frame display_temp writes for field k of the line l
FieldFrame(l, k) == display_temp(float(Fields(l)[k]).val).writes[1]

\* the last step of the program was an iteration that made the Updated
\* transition
UpdatedIteration == pc = "loop" /\ iters >= 1 /\ InLog(log, "Displayed")

\* the step changes a pin of display d
PinChange(d) == clk'[d] # clk[d] \/ dio'[d] # dio[d]

\* C17: in an iteration that makes the Updated transition, a pin of the CPU
\* display changes only inside the write of the frame of the line's first
\* field, with the GPU write still to come; a pin of the GPU display changes
\* only inside the write of the frame of the same line's second field, after
\* the CPU write made all three transactions and returned with the CPU bus
\* released; and no line is read (no iteration starts) while a write is
\* pending or in progress.
C17_SequentialUpdate ==
    [][ /\ (UpdatedIteration /\ PinChange("cpu")) =>
              /\ bpc = "op"
              /\ cur = [display |-> "cpu", segments |-> FieldFrame(line, 1)]
              /\ queue = << [display |-> "gpu", segments |-> FieldFrame(line, 2)] >>
              /\ ~PinChange("gpu")
        /\ (UpdatedIteration /\ PinChange("gpu")) =>
              /\ bpc = "op"
              /\ cur = [display |-> "gpu", segments |-> FieldFrame(line, 2)]
              /\ queue = <<>>
              /\ calls["cpu"] = write_ops(FieldFrame(line, 1), brightness["cpu"])
              /\ clk["cpu"] = 1 /\ dio["cpu"] = 1
              /\ ~PinChange("cpu")
        /\ (line' # line \/ iters' # iters) =>
              /\ BusQuiet
              /\ iters' = iters + 1
              /\ UNCHANGED <<clk, dio>>
        /\ (UpdatedIteration /\ BusQuiet) =>
              /\ cur = [display |-> "gpu", segments |-> FieldFrame(line, 2)]
              /\ calls["gpu"] = write_ops(FieldFrame(line, 2), brightness["gpu"])
      ]_vars

\* C17 witness: in the second iteration, on the line "72.4,105.6", the GPU
\* display is being sent its first segment byte after the CPU write returned
C17_Witness ==
    /\ UpdatedIteration
    /\ iters = 2
    /\ line = <<"7", "2", ".", "4", ",", "1", "0", "5", ".", "6", "\n">>
    /\ bpc = "op"
    /\ cur.display = "gpu"
    /\ cur.segments = <<DIGITS[2], DIGITS[1], DIGITS[7], 0>>
    /\ opIdx = 6
    /\ stepIdx = 2
    /\ Len(calls["cpu"]) = 13
=============================================================================
